---- MODULE Spec2Model ----
(***************************************************************************)
(* vdscript_to_cpf: conversion of a VirtualDub .vdscript cut list into a   *)
(* Cuttermaran .cpf project file.  The module models one run of            *)
(* convert_vdscript_to_cpf, of either script version (v1.0.0 or v1.1.0),   *)
(* against a small file system: parse_vdscript (open, readlines, close,    *)
(* the regular-expression loop) followed by write_cpf_file (the existence  *)
(* check, open, one step per file.write call, close, print).               *)
(*                                                                         *)
(* Text is modelled as sequences of one-character strings, so that the     *)
(* regular expression, int() and the f-string formatting are computed and  *)
(* not assumed.  What write_cpf_file writes is a sequence of payloads, one *)
(* per file.write call, each a sequence of text fragments.                 *)
(***************************************************************************)
EXTENDS Integers, Sequences, FiniteSets

VARIABLES ver, script, fs, handles, pc, lines, cut_segments, stdout, raised, syscalls

vars == <<ver, script, fs, handles, pc, lines, cut_segments, stdout, raised, syscalls>>

(***************************************************************************)
(* Bounds of the model.                                                    *)
(***************************************************************************)
\* the largest number of lines of the .vdscript file
MaxLines == 2

(***************************************************************************)
(* The two script versions and the four paths of the usage example.        *)
(***************************************************************************)
V100 == "v1.0.0"
V110 == "v1.1.0"
Versions == {V100, V110}

vdscript_filepath == "C:\\New folder\\test.vdscript"
cpf_filepath == "C:\\New folder\\output.cpf"
video_filepath == "C:\\New folder\\test.m2v"
audio_filepath == "C:\\New folder\\test.mp2"

Paths == {vdscript_filepath, cpf_filepath, video_filepath, audio_filepath}

(***************************************************************************)
(* Decimal text: int() of a matched group and the f-string formatting of   *)
(* an integer.                                                             *)
(***************************************************************************)
DigitChars == <<"0", "1", "2", "3", "4", "5", "6", "7", "8", "9">>

Digits == {DigitChars[k] : k \in 1..10}

DigitValue(c) == (CHOOSE k \in 1..10 : DigitChars[k] = c) - 1

RECURSIVE DecimalValue(_, _)
\* the number the digit characters s denote, acc being the value read so far
DecimalValue(s, acc) ==
  IF s = <<>> THEN acc
  ELSE DecimalValue(Tail(s), acc * 10 + DigitValue(Head(s)))

\* int(text): a value for a non-empty run of decimal digits, ValueError
\* for anything else the model's lines can hold
int(text) ==
  IF text # <<>> /\ \A k \in 1..Len(text) : text[k] \in Digits
  THEN [ok |-> TRUE, value |-> DecimalValue(text, 0)]
  ELSE [ok |-> FALSE, value |-> 0]

RECURSIVE NatText(_)
NatText(n) ==
  IF n < 10 THEN <<DigitChars[n + 1]>>
  ELSE NatText(n \div 10) \o <<DigitChars[(n % 10) + 1]>>

\* the text an f-string puts for the integer n: decimal digits, no padding,
\* a leading minus sign for a negative number
str(n) == IF n < 0 THEN <<"-">> \o NatText(0 - n) ELSE NatText(n)

(***************************************************************************)
(* The regular expression.  A pattern is the sequence of its tokens as the *)
(* source spells them: a plain character, an escaped character, or the     *)
(* capturing group (\d+).  Every group of these patterns is followed by a  *)
(* character that is no digit, so the greedy group takes the whole run of  *)
(* digits and no backtracking can make a shorter run match.                *)
(***************************************************************************)
DigitsGroup == "(\\d+)"

subset_pattern_v100 ==
  <<"V", "i", "r", "t", "u", "a", "l", "D", "u", "b", "\\.",
    "s", "u", "b", "s", "e", "t", "\\.",
    "A", "d", "d", "R", "a", "n", "g", "e", "\\(",
    DigitsGroup, ",", DigitsGroup, "\\)", ";">>

subset_pattern_v110 ==
  <<"V", "i", "r", "t", "u", "a", "l", "D", "u", "b", "\\.",
    "s", "u", "b", "s", "e", "t", "\\.",
    "A", "d", "d", "R", "a", "n", "g", "e", "\\(",
    DigitsGroup, ",", DigitsGroup, "\\)", ";">>

subset_pattern(version) ==
  IF version = V100 THEN subset_pattern_v100 ELSE subset_pattern_v110

\* the character an escaped or plain pattern token stands for
LiteralOf(token) ==
  CASE token = "\\." -> "."
    [] token = "\\(" -> "("
    [] token = "\\)" -> ")"
    [] OTHER -> token

NoMatch == [matched |-> FALSE, groups |-> <<>>, end |-> 0]

RECURSIVE DigitRunEnd(_, _)
\* the index of the last character of the run of digits that starts at pos
\* (pos - 1 when the character at pos is no digit)
DigitRunEnd(line, pos) ==
  IF pos <= Len(line) /\ line[pos] \in Digits
  THEN DigitRunEnd(line, pos + 1)
  ELSE pos - 1

RECURSIVE MatchTokens(_, _, _, _, _)
\* the pattern's tokens i.. matched against line from position pos on
MatchTokens(pattern, i, line, pos, groups) ==
  IF i > Len(pattern) THEN [matched |-> TRUE, groups |-> groups, end |-> pos - 1]
  ELSE IF pattern[i] = DigitsGroup
  THEN LET e == DigitRunEnd(line, pos) IN
       IF e < pos THEN NoMatch
       ELSE MatchTokens(pattern, i + 1, line, e + 1,
                        Append(groups, SubSeq(line, pos, e)))
  ELSE IF pos <= Len(line) /\ line[pos] = LiteralOf(pattern[i])
  THEN MatchTokens(pattern, i + 1, line, pos + 1, groups)
  ELSE NoMatch

\* re.search: the first position of the line at which the pattern matches
pattern_search(pattern, line) ==
  LET hits == {p \in 1..Len(line) : MatchTokens(pattern, 1, line, p, <<>>).matched} IN
  IF hits = {} THEN NoMatch
  ELSE MatchTokens(pattern, 1, line, CHOOSE p \in hits : \A q \in hits : p <= q, <<>>)

\* the pattern with $ at its end: it must take the whole line, a final
\* newline apart
pattern_match_to_end(pattern, line) ==
  LET m == MatchTokens(pattern, 1, line, 1, <<>>) IN
  IF m.matched /\ (m.end = Len(line) \/ (m.end = Len(line) - 1 /\ line[Len(line)] = "\n"))
  THEN m ELSE NoMatch

\* pattern.match(line): anchored at the first character of the line, free
\* at its end
pattern_match(pattern, line) == MatchTokens(pattern, 1, line, 1, <<>>)

(***************************************************************************)
(* file.readlines(): the text split after each newline, terminators kept.  *)
(***************************************************************************)
\* the positions at which a line of text ends: each newline, and the last
\* character when no newline follows it
LineEnds(text) ==
  {k \in 1..Len(text) : text[k] = "\n" \/ k = Len(text)}

\* the j-th smallest member of the set of positions S
NthPosition(S, j) == CHOOSE e \in S : Cardinality({x \in S : x <= e}) = j

readlines(text) ==
  LET ends == LineEnds(text) IN
  [j \in 1..Cardinality(ends) |->
     SubSeq(text, (IF j = 1 THEN 0 ELSE NthPosition(ends, j - 1)) + 1,
            NthPosition(ends, j))]

(***************************************************************************)
(* parse_vdscript: the loop over the lines.                                *)
(***************************************************************************)
\* the end of the other version, by mistake
end_frame_v100_inclusive(start_frame, frame_count) == start_frame + frame_count - 1

end_frame_v110_exclusive(start_frame, frame_count) == start_frame + frame_count

\* v1.0.0: end_frame = start_frame + frame_count
end_frame_v100(start_frame, frame_count) == start_frame + frame_count

\* v1.1.0: end_frame = start_frame + frame_count - 1, "adjusting for inclusive
\* behavior in Cuttermaran"
end_frame_v110(start_frame, frame_count) == start_frame + frame_count - 1

\* the dictionary appended for one matched line
segment_of(version, start_frame, frame_count) ==
  IF version = V100
  THEN [StartPosition |-> start_frame,
        EndPosition |-> end_frame_v100(start_frame, frame_count)]
  ELSE [start |-> start_frame,
        end |-> end_frame_v110(start_frame, frame_count)]

\* list.append, and the same with a de-duplicating slip
append_unless_present(list, item) ==
  IF \E k \in 1..Len(list) : list[k] = item THEN list ELSE Append(list, item)

list_append(list, item) == Append(list, item)

RECURSIVE parse_lines(_, _, _, _)
\* the for loop from line k on; error is "ValueError" once an int() failed
parse_lines(version, ls, k, acc) ==
  IF k > Len(ls) THEN [error |-> "None", segments |-> acc]
  ELSE LET m == pattern_match(subset_pattern(version), ls[k]) IN
       IF ~m.matched THEN parse_lines(version, ls, k + 1, acc)
       ELSE LET start_frame == int(m.groups[1])
                frame_count == int(m.groups[2])
            IN IF ~start_frame.ok \/ ~frame_count.ok
               THEN [error |-> "ValueError", segments |-> acc]
               ELSE parse_lines(version, ls, k + 1,
                                list_append(acc, segment_of(version, start_frame.value,
                                                            frame_count.value)))

parse_loop(version, ls) == parse_lines(version, ls, 1, <<>>)

(***************************************************************************)
(* write_cpf_file: the payloads of the file.write calls, in program order. *)
(***************************************************************************)
xml_declaration == <<"<?xml version=\"1.0\" standalone=\"yes\"?>\n">>

root_open == <<"<StateData xmlns=\"http://cuttermaran.kickme.to/StateData.xsd\">\n">>

used_video_files(video) ==
  <<"  <usedVideoFiles FileID=\"0\" FileName=\"", video, "\" />\n">>

used_audio_files(audio) ==
  <<"  <usedAudioFiles FileID=\"1\" FileName=\"", audio, "\" StartDelay=\"0\" />\n">>

\* the comment with the loop index as it is, one less than the source writes
segment_comment_zero_based(i) == <<"  <!-- Segment ">> \o str(i) \o <<" -->\n">>

\* the comment written for the segment at enumerate index i (from 0)
segment_comment(i) == <<"  <!-- Segment ">> \o str(i + 1) \o <<" -->\n">>

\* the opening tag with the two positions exchanged
cut_elements_swapped(start_position, end_position) ==
  <<"  <CutElements refVideoFile=\"0\" StartPosition=\"">> \o str(end_position)
    \o <<"\" EndPosition=\"">> \o str(start_position) \o <<"\">\n">>

cut_elements(start_position, end_position) ==
  <<"  <CutElements refVideoFile=\"0\" StartPosition=\"">> \o str(start_position)
    \o <<"\" EndPosition=\"">> \o str(end_position) \o <<"\">\n">>

cut_audio_files == <<"    <cutAudioFiles refAudioFile=\"1\" />\n">>

cut_elements_close == <<"  </CutElements>\n">>

current_files_open == <<"  <CurrentFiles refVideoFiles=\"0\">\n">>

current_audio_files == <<"    <currentAudioFiles refAudioFiles=\"1\" />\n">>

current_files_close == <<"  </CurrentFiles>\n">>

root_close == <<"</StateData>\n">>

\* the writes of one iteration of the loop over cut_segments
segment_writes(version, i, segment) ==
  IF version = V100
  THEN <<cut_elements(segment.StartPosition, segment.EndPosition),
         cut_audio_files, cut_elements_close>>
  ELSE <<segment_comment(i), cut_elements(segment.start, segment.end),
         cut_audio_files, cut_elements_close>>

RECURSIVE loop_writes(_, _, _)
\* the writes of the iterations i, i + 1, ... of the loop
loop_writes(version, segments, i) ==
  IF i >= Len(segments) THEN <<>>
  ELSE segment_writes(version, i, segments[i + 1]) \o loop_writes(version, segments, i + 1)

\* every file.write call of write_cpf_file, in the order the calls are made
write_calls(version, video, audio, segments) ==
  <<xml_declaration, root_open, used_video_files(video), used_audio_files(audio)>>
    \o loop_writes(version, segments, 0)
    \o <<current_files_open, current_audio_files, current_files_close, root_close>>

already_exists_message(path) ==
  <<"Error: The file ", path,
    " already exists. Please choose a different filename or remove the existing file.">>

saved_message(path) == <<"Cuttermaran project file saved as ", path>>

(***************************************************************************)
(* The .vdscript files of the model: up to MaxLines lines, each taken from *)
(* a catalogue of well-formed calls, calls followed by further text, and   *)
(* malformed near-matches.  An entry records how its line was built: kind, *)
(* and for the lines that begin with a well-formed call the numbers its    *)
(* two arguments denote.                                                   *)
(***************************************************************************)
AddRangeOpen ==
  <<"V", "i", "r", "t", "u", "a", "l", "D", "u", "b", ".",
    "s", "u", "b", "s", "e", "t", ".",
    "A", "d", "d", "R", "a", "n", "g", "e", "(">>

CallText(a, b) == AddRangeOpen \o a \o <<",">> \o b \o <<")", ";">>

Entry(text, kind, start, count) ==
  [text |-> text, kind |-> kind, start |-> start, count |-> count]

T100 == <<"1", "0", "0">>
T50 == <<"5", "0">>
T300 == <<"3", "0", "0">>
T10 == <<"1", "0">>

ExactLines ==
  { Entry(CallText(T100, T50), "exact", 100, 50),
    Entry(CallText(T300, T10), "exact", 300, 10),
    Entry(CallText(<<"1", "5", "0">>, <<"0">>), "exact", 150, 0),
    Entry(CallText(<<"0">>, <<"0">>), "exact", 0, 0),
    Entry(CallText(<<"0", "1", "2", "0">>, <<"0", "5", "0">>), "exact", 120, 50) }

TrailingLines ==
  { Entry(CallText(T100, T50) \o <<" ", "/", "/", "c">>, "trailing", 100, 50),
    Entry(CallText(T300, T10) \o <<" ">>, "trailing", 300, 10),
    Entry(CallText(T100, T50) \o CallText(T300, T10), "trailing", 100, 50) }

MalformedLines ==
  { Entry(<<" ">> \o CallText(T100, T50), "leading", 100, 50),
    Entry(<<"\t">> \o CallText(T300, T10), "leading", 300, 10),
    Entry(<<"v">> \o Tail(CallText(T100, T50)), "misspelled", 100, 50),
    Entry(AddRangeOpen \o T100 \o <<",">> \o T50 \o <<")">>, "nosemicolon", 100, 50),
    Entry(CallText(<<"1", "x">>, T50), "nondigit", 0, 50),
    Entry(CallText(<<>>, T50), "emptyargument", 0, 50),
    Entry(CallText(T100, <<" ">> \o T50), "padded", 100, 50) }

Catalogue == ExactLines \cup TrailingLines \cup MalformedLines

Scripts == UNION {[1..n -> Catalogue] : n \in 0..MaxLines}

RECURSIVE FileText(_, _)
\* the text of the file whose lines are the entries of s; the last line
\* ends with a newline or not
FileText(s, final_newline) ==
  IF s = <<>> THEN <<>>
  ELSE Head(s).text
         \o (IF Len(s) > 1 \/ final_newline THEN <<"\n">> ELSE <<>>)
         \o FileText(Tail(s), final_newline)

OldProject == <<<<"an earlier project file\n">>>>

(***************************************************************************)
(* The file system and the run.                                            *)
(***************************************************************************)
Missing == [exists |-> FALSE, data |-> <<>>]

File(data) == [exists |-> TRUE, data |-> data]

Handle(path, mode) == [path |-> path, mode |-> mode]

Call(op, path) == [op |-> op, path |-> path]

NoException == [type |-> "None", path |-> ""]

Exception(type, path) == [type |-> type, path |-> path]

\* os.path.exists that never finds the file
os_path_exists_never(path) == FALSE

os_path_exists(path) == fs[path].exists

\* a with block that forgets to close its file
with_exit_leak(handle) == handles

\* the end of a with block, normal or by an exception: the file is closed
with_exit(handle) == handles \ {handle}

Init ==
  /\ ver \in Versions
  /\ script \in Scripts
  /\ \E source_exists \in BOOLEAN, destination_exists \in BOOLEAN,
        final_newline \in BOOLEAN :
       /\ (~source_exists => script = <<>>)
       /\ fs = [p \in Paths |->
                  IF p = vdscript_filepath
                  THEN (IF source_exists THEN File(FileText(script, final_newline)) ELSE Missing)
                  ELSE IF p = cpf_filepath
                  THEN (IF destination_exists THEN File(OldProject) ELSE Missing)
                  ELSE Missing]
  /\ handles = {}
  /\ pc = "parse_open"
  /\ lines = <<>>
  /\ cut_segments = <<>>
  /\ stdout = <<>>
  /\ raised = NoException
  /\ syscalls = <<>>

\* parse_vdscript: open(filepath, 'r') succeeds
OpenSource ==
  /\ pc = "parse_open"
  /\ fs[vdscript_filepath].exists
  /\ handles' = handles \cup {Handle(vdscript_filepath, "r")}
  /\ syscalls' = Append(syscalls, Call("open", vdscript_filepath))
  /\ pc' = "parse_read"
  /\ UNCHANGED <<ver, script, fs, lines, cut_segments, stdout, raised>>

\* parse_vdscript: open(filepath, 'r') fails, the file being missing or
\* unreadable; the exception leaves parse_vdscript and convert_vdscript_to_cpf
OpenSourceFail ==
  /\ pc = "parse_open"
  /\ raised' = Exception(IF fs[vdscript_filepath].exists THEN "PermissionError"
                         ELSE "FileNotFoundError", vdscript_filepath)
  /\ syscalls' = Append(syscalls, Call("open", vdscript_filepath))
  /\ pc' = "raised"
  /\ UNCHANGED <<ver, script, fs, handles, lines, cut_segments, stdout>>

\* parse_vdscript: lines = file.readlines()
ReadLines ==
  /\ pc = "parse_read"
  /\ lines' = readlines(fs[vdscript_filepath].data)
  /\ syscalls' = Append(syscalls, Call("read", vdscript_filepath))
  /\ pc' = "parse_close"
  /\ UNCHANGED <<ver, script, fs, handles, cut_segments, stdout, raised>>

\* parse_vdscript: file.readlines() fails; the with block closes the file
\* and the exception propagates
ReadLinesFail ==
  /\ pc = "parse_read"
  /\ raised' = Exception("OSError", vdscript_filepath)
  /\ handles' = with_exit(Handle(vdscript_filepath, "r"))
  /\ syscalls' = syscalls \o <<Call("read", vdscript_filepath),
                               Call("close", vdscript_filepath)>>
  /\ pc' = "raised"
  /\ UNCHANGED <<ver, script, fs, lines, cut_segments, stdout>>

\* parse_vdscript: the end of the with block
CloseSource ==
  /\ pc = "parse_close"
  /\ handles' = with_exit(Handle(vdscript_filepath, "r"))
  /\ syscalls' = Append(syscalls, Call("close", vdscript_filepath))
  /\ pc' = "parse_loop"
  /\ UNCHANGED <<ver, script, fs, lines, cut_segments, stdout, raised>>

\* parse_vdscript: the loop over the lines and the return
ParseLoop ==
  /\ pc = "parse_loop"
  /\ LET result == parse_loop(ver, lines) IN
       IF result.error = "None"
       THEN /\ cut_segments' = result.segments
            /\ pc' = "write_exists"
            /\ UNCHANGED raised
       ELSE /\ raised' = Exception(result.error, "")
            /\ pc' = "raised"
            /\ UNCHANGED cut_segments
  /\ UNCHANGED <<ver, script, fs, handles, lines, stdout, syscalls>>

\* write_cpf_file: the output path exists; print the error and return
RefuseOverwrite ==
  /\ pc = "write_exists"
  /\ os_path_exists(cpf_filepath)
  /\ syscalls' = Append(syscalls, Call("exists", cpf_filepath))
  /\ stdout' = Append(stdout, already_exists_message(cpf_filepath))
  /\ pc' = "done"
  /\ UNCHANGED <<ver, script, fs, handles, lines, cut_segments, raised>>

\* write_cpf_file: the output path does not exist
PassExistenceCheck ==
  /\ pc = "write_exists"
  /\ ~os_path_exists(cpf_filepath)
  /\ syscalls' = Append(syscalls, Call("exists", cpf_filepath))
  /\ pc' = "write_open"
  /\ UNCHANGED <<ver, script, fs, handles, lines, cut_segments, stdout, raised>>

\* write_cpf_file: open(output_filepath, 'w') creates the file, or empties it
OpenDestination ==
  /\ pc = "write_open"
  /\ fs' = [fs EXCEPT ![cpf_filepath] = File(<<>>)]
  /\ handles' = handles \cup {Handle(cpf_filepath, "w")}
  /\ syscalls' = Append(syscalls, Call("open", cpf_filepath))
  /\ pc' = "write"
  /\ UNCHANGED <<ver, script, lines, cut_segments, stdout, raised>>

\* write_cpf_file: open(output_filepath, 'w') fails
OpenDestinationFail ==
  /\ pc = "write_open"
  /\ raised' = Exception("OSError", cpf_filepath)
  /\ syscalls' = Append(syscalls, Call("open", cpf_filepath))
  /\ pc' = "raised"
  /\ UNCHANGED <<ver, script, fs, handles, lines, cut_segments, stdout>>

\* write_cpf_file: the next file.write call
FileWrite ==
  /\ pc = "write"
  /\ LET calls == write_calls(ver, video_filepath, audio_filepath, cut_segments)
         written == Len(fs[cpf_filepath].data)
     IN /\ written < Len(calls)
        /\ fs' = [fs EXCEPT ![cpf_filepath].data = Append(@, calls[written + 1])]
  /\ syscalls' = Append(syscalls, Call("write", cpf_filepath))
  /\ UNCHANGED <<ver, script, handles, pc, lines, cut_segments, stdout, raised>>

\* write_cpf_file: a file.write call fails; the with block closes the file,
\* what was written stays, and the exception propagates
FileWriteFail ==
  /\ pc = "write"
  /\ Len(fs[cpf_filepath].data)
       < Len(write_calls(ver, video_filepath, audio_filepath, cut_segments))
  /\ raised' = Exception("OSError", cpf_filepath)
  /\ handles' = with_exit(Handle(cpf_filepath, "w"))
  /\ syscalls' = syscalls \o <<Call("write", cpf_filepath), Call("close", cpf_filepath)>>
  /\ pc' = "raised"
  /\ UNCHANGED <<ver, script, fs, lines, cut_segments, stdout>>

\* write_cpf_file: the end of the with block, after the last write
CloseDestination ==
  /\ pc = "write"
  /\ Len(fs[cpf_filepath].data)
       = Len(write_calls(ver, video_filepath, audio_filepath, cut_segments))
  /\ handles' = with_exit(Handle(cpf_filepath, "w"))
  /\ syscalls' = Append(syscalls, Call("close", cpf_filepath))
  /\ pc' = "print_saved"
  /\ UNCHANGED <<ver, script, fs, lines, cut_segments, stdout, raised>>

\* write_cpf_file: the closing print, and the return
PrintSaved ==
  /\ pc = "print_saved"
  /\ stdout' = Append(stdout, saved_message(cpf_filepath))
  /\ pc' = "done"
  /\ UNCHANGED <<ver, script, fs, handles, lines, cut_segments, raised, syscalls>>

Next ==
  \/ OpenSource
  \/ OpenSourceFail
  \/ ReadLines
  \/ ReadLinesFail
  \/ CloseSource
  \/ ParseLoop
  \/ RefuseOverwrite
  \/ PassExistenceCheck
  \/ OpenDestination
  \/ OpenDestinationFail
  \/ FileWrite
  \/ FileWriteFail
  \/ CloseDestination
  \/ PrintSaved

Spec == Init /\ [][Next]_vars

(***************************************************************************)
(* What the claims speak of.                                               *)
(***************************************************************************)
\* parse_vdscript has returned
Parsed == pc \in {"write_exists", "write_open", "write", "print_saved", "done"}

\* write_cpf_file has written the whole document and closed the file
Completed ==
  /\ pc \in {"print_saved", "done"}
  /\ \E k \in 1..Len(syscalls) : syscalls[k] = Call("close", cpf_filepath)

\* the system calls of the run that name the destination path
DestinationCalls == {k \in 1..Len(syscalls) : syscalls[k].path = cpf_filepath}

\* the line of this entry begins, at its first character, with a well-formed call
BeginsWithCall(entry) == entry.kind \in {"exact", "trailing"}

\* the line of this entry is a well-formed call and nothing else
IsExactCall(entry) == entry.kind = "exact"

\* the line of this entry is one of the malformed near-matches
IsMalformed(entry) ==
  entry.kind \in {"leading", "misspelled", "nosemicolon", "nondigit",
                  "emptyargument", "padded"}

IsNotMalformed(entry) == ~IsMalformed(entry)

SegmentStart(segment) == IF ver = V100 THEN segment.StartPosition ELSE segment.start

SegmentEnd(segment) == IF ver = V100 THEN segment.EndPosition ELSE segment.end

\* the frame count a segment of the running version stands for
SegmentCount(segment) ==
  SegmentEnd(segment) - SegmentStart(segment) + (IF ver = V110 THEN 1 ELSE 0)

\* text is the decimal writing of n without padding: read back it gives n,
\* and it has no leading zero (a minus sign first for a negative n)
IsDecimalOf(text, n) ==
  LET digits == IF n < 0 THEN Tail(text) ELSE text
      m == IF n < 0 THEN 0 - n ELSE n
  IN /\ text # <<>>
     /\ (n < 0 => Head(text) = "-")
     /\ int(digits).ok
     /\ int(digits).value = m
     /\ (Len(digits) = 1 \/ digits[1] # "0")

CutElementsHead == "  <CutElements refVideoFile=\"0\" StartPosition=\""

CutElementsMiddle == "\" EndPosition=\""

CutElementsTail == "\">\n"

SegmentCommentHead == "  <!-- Segment "

\* payload is the opening CutElements tag that carries the numbers start and end
IsCutElementsOf(payload, start, end) ==
  /\ Len(payload) >= 5
  /\ payload[1] = CutElementsHead
  /\ payload[Len(payload)] = CutElementsTail
  /\ \E m \in 3..(Len(payload) - 2) :
       /\ payload[m] = CutElementsMiddle
       /\ IsDecimalOf(SubSeq(payload, 2, m - 1), start)
       /\ IsDecimalOf(SubSeq(payload, m + 1, Len(payload) - 1), end)

\* payload is the comment "Segment n"
IsSegmentCommentOf(payload, n) ==
  /\ Len(payload) >= 3
  /\ payload[1] = SegmentCommentHead
  /\ payload[Len(payload)] = " -->\n"
  /\ IsDecimalOf(SubSeq(payload, 2, Len(payload) - 1), n)

IsNoComment(payload) == payload[1] # SegmentCommentHead

\* C1: a call of write_cpf_file with an output path that exists leaves the
\* whole file system as it was, opens nothing, holds no file handle when it
\* returns, raises nothing, and prints the already-exists error instead.
C1_OverwriteRefusal ==
  [][(pc = "write_exists" /\ fs[cpf_filepath].exists) =>
       /\ fs' = fs
       /\ handles' = {}
       /\ raised' = NoException
       /\ pc' = "done"
       /\ syscalls' = Append(syscalls, Call("exists", cpf_filepath))
       /\ Len(stdout') = Len(stdout) + 1
       /\ stdout'[Len(stdout')][1] = "Error: The file "
       /\ stdout'[Len(stdout')][2] = cpf_filepath]_vars

C1_Witness ==
  /\ pc = "done"
  /\ fs[cpf_filepath] = File(OldProject)
  /\ cut_segments # <<>>
  /\ stdout # <<>>
  /\ stdout[1][1] = "Error: The file "

\* C2: every interval parse_vdscript of v1.1.0 returns has end >= start,
\* a frame count of 0 included.
C2_EndAtLeastStart ==
  ver = V110 =>
    \A k \in 1..Len(cut_segments) : cut_segments[k].end >= cut_segments[k].start

C2_Witness ==
  /\ ver = V110
  /\ Parsed
  /\ \E k \in 1..Len(cut_segments) : cut_segments[k].end < cut_segments[k].start

\* C3: parse_vdscript returns one interval per line that begins with a
\* well-formed call, in the order of those lines: the k-th interval has the
\* start and the frame count of the k-th such line, duplicates, overlapping,
\* adjacent and descending ranges all kept.
C3_OrderingPreserved ==
  Parsed =>
    LET expected == SelectSeq(script, BeginsWithCall) IN
    /\ Len(cut_segments) = Len(expected)
    /\ \A k \in 1..Len(expected) :
         /\ SegmentStart(cut_segments[k]) = expected[k].start
         /\ SegmentCount(cut_segments[k]) = expected[k].count

C3_Witness ==
  /\ Parsed
  /\ Len(script) = 2
  /\ Len(cut_segments) = 2
  /\ cut_segments[1] = cut_segments[2]

\* C4: in v1.1.0 the interval of a line with arguments (start, count) has
\* that start and the end start + count - 1, the same for every interval.
C4_InclusiveEnd ==
  (ver = V110 /\ Parsed) =>
    LET expected == SelectSeq(script, BeginsWithCall) IN
    /\ Len(cut_segments) = Len(expected)
    /\ \A k \in 1..Len(expected) :
         /\ cut_segments[k].start = expected[k].start
         /\ cut_segments[k].end = expected[k].start + expected[k].count - 1

C4_Witness ==
  /\ ver = V110
  /\ Parsed
  /\ cut_segments = <<[start |-> 100, end |-> 149], [start |-> 300, end |-> 309]>>

\* C5: when the output path does not exist, the file holds, in this order,
\* the XML declaration, the StateData opening, one usedVideoFiles entry with
\* FileID 0, one usedAudioFiles entry with FileID 1 and StartDelay 0, one
\* CutElements block per interval in the order of the list, the k-th with
\* the k-th interval's start and end as unpadded decimal text, refVideoFile
\* 0 and one cutAudioFiles refAudioFile 1, then one CurrentFiles block
\* referencing 0 and 1 and the closing tag; no CutElements block for an
\* empty list.
C5_DocumentShape ==
  Completed =>
    LET d == fs[cpf_filepath].data
        N == Len(cut_segments)
        B == IF ver = V110 THEN 4 ELSE 3
        last == 4 + B * N
    IN /\ Len(d) = last + 4
       /\ d[1] = <<"<?xml version=\"1.0\" standalone=\"yes\"?>\n">>
       /\ d[2] = <<"<StateData xmlns=\"http://cuttermaran.kickme.to/StateData.xsd\">\n">>
       /\ d[3] = <<"  <usedVideoFiles FileID=\"0\" FileName=\"", video_filepath, "\" />\n">>
       /\ d[4] = <<"  <usedAudioFiles FileID=\"1\" FileName=\"", audio_filepath,
                   "\" StartDelay=\"0\" />\n">>
       /\ \A k \in 1..N :
            LET at == 4 + B * k - 2 IN
            /\ IsCutElementsOf(d[at], SegmentStart(cut_segments[k]),
                               SegmentEnd(cut_segments[k]))
            /\ d[at + 1] = <<"    <cutAudioFiles refAudioFile=\"1\" />\n">>
            /\ d[at + 2] = <<"  </CutElements>\n">>
       /\ Cardinality({j \in 1..Len(d) : d[j][1] = CutElementsHead}) = N
       /\ Cardinality({j \in 1..Len(d) : d[j] = <<"  </CutElements>\n">>}) = N
       /\ d[last + 1] = <<"  <CurrentFiles refVideoFiles=\"0\">\n">>
       /\ d[last + 2] = <<"    <currentAudioFiles refAudioFiles=\"1\" />\n">>
       /\ d[last + 3] = <<"  </CurrentFiles>\n">>
       /\ d[last + 4] = <<"</StateData>\n">>

C5_Witness ==
  /\ Completed
  /\ ver = V110
  /\ Len(cut_segments) = 2
  /\ cut_segments[1].start > cut_segments[2].start
  /\ Len(fs[cpf_filepath].data) = 16

\* C6: no system call names the destination path before the source file
\* has been read and closed, and nothing of the destination changes before
\* that; when opening or reading the source fails the exception propagates,
\* the run ends there, and the destination is never checked, created or
\* written.
C6_ReadBeforeWrite ==
  /\ \A k \in DestinationCalls :
       \E i \in 1..k, j \in 1..k :
         /\ i < j
         /\ syscalls[i] = Call("read", vdscript_filepath)
         /\ syscalls[j] = Call("close", vdscript_filepath)
  /\ DestinationCalls # {} =>
       /\ Handle(vdscript_filepath, "r") \notin handles
       /\ lines = readlines(fs[vdscript_filepath].data)
  /\ DestinationCalls = {} =>
       /\ fs[cpf_filepath] \in {Missing, File(OldProject)}
       /\ Handle(cpf_filepath, "w") \notin handles
  /\ raised.path = vdscript_filepath =>
       /\ pc = "raised"
       /\ ~ENABLED Next
       /\ DestinationCalls = {}
       /\ fs[cpf_filepath] \in {Missing, File(OldProject)}

C6_Witness ==
  /\ pc = "raised"
  /\ raised = Exception("OSError", vdscript_filepath)
  /\ script # <<>>
  /\ ~fs[cpf_filepath].exists
  /\ handles = {}

C8_ExactShapeOnly ==
  Parsed => Len(cut_segments) = Len(SelectSeq(script, IsExactCall))

\* C8 as amended: a line gives an interval exactly when it begins, at its
\* first character, with a well-formed call; what follows the semicolon (a
\* comment, spaces, a second statement) is ignored, and the interval is that
\* of the first call.
C8_CallPrefixOnly ==
  Parsed =>
    /\ Len(cut_segments) = Cardinality({j \in 1..Len(script) : BeginsWithCall(script[j])})
    /\ \A j \in 1..Len(script) :
         script[j].kind = "trailing" =>
           LET k == Cardinality({i \in 1..j : BeginsWithCall(script[i])}) IN
           /\ k <= Len(cut_segments)
           /\ SegmentStart(cut_segments[k]) = script[j].start
           /\ SegmentCount(cut_segments[k]) = script[j].count

C8_Witness ==
  /\ Parsed
  /\ Len(script) = 1
  /\ script[1].kind = "trailing"
  /\ Len(cut_segments) = 1

\* C9: in v1.1.0 each CutElements block is directly preceded by the comment
\* "Segment k" for the k-th interval, k = 1, 2, ... without gap or repeat,
\* and the output without its comment lines is what the v1.0.0 writer
\* writes for the same paths and the same start and end values.
C9_SegmentCommentsCosmetic ==
  (ver = V110 /\ Completed) =>
    LET d == fs[cpf_filepath].data
        N == Len(cut_segments)
        renamed == [k \in 1..N |-> [StartPosition |-> cut_segments[k].start,
                                    EndPosition |-> cut_segments[k].end]]
    IN /\ \A k \in 1..N :
            /\ 4 * k + 2 <= Len(d)
            /\ IsSegmentCommentOf(d[4 * k + 1], k)
            /\ d[4 * k + 2][1] = CutElementsHead
       /\ Cardinality({j \in 1..Len(d) : d[j][1] = SegmentCommentHead}) = N
       /\ SelectSeq(d, IsNoComment)
            = write_calls(V100, video_filepath, audio_filepath, renamed)

C9_Witness ==
  /\ ver = V110
  /\ Completed
  /\ Len(cut_segments) = 2
  /\ fs[cpf_filepath].data[9] = <<SegmentCommentHead, "2", " -->\n">>

\* C10: when parse_vdscript returns: on the same lines the two versions match the same lines and return
\* lists of the same length with the same starts in the same order, the
\* v1.0.0 end being one more than the v1.1.0 end at every position.
C10_VersionRelation ==
  pc = "write_exists" =>
    LET old == parse_loop(V100, lines)
        new == parse_loop(V110, lines)
    IN /\ cut_segments = (IF ver = V100 THEN old.segments ELSE new.segments)
       /\ old.error = new.error
       /\ \A j \in 1..Len(lines) :
            pattern_match(subset_pattern_v100, lines[j]).matched
              = pattern_match(subset_pattern_v110, lines[j]).matched
       /\ Len(old.segments) = Len(new.segments)
       /\ \A k \in 1..Len(new.segments) :
            /\ old.segments[k].StartPosition = new.segments[k].start
            /\ old.segments[k].EndPosition = new.segments[k].end + 1

C10_Witness ==
  /\ pc = "write_exists"
  /\ ver = V100
  /\ Len(cut_segments) = 2
  /\ cut_segments[1] = [StartPosition |-> 100, EndPosition |-> 150]
  /\ cut_segments[2] = [StartPosition |-> 0, EndPosition |-> 0]

====
